---- MODULE Spec2Model ----
(***************************************************************************)
(* Model of the home-automation MCP client (MCPClient_GradioUI.py): the    *)
(* module globals, the lifecycle of the capability-server child processes  *)
(* and protocol sessions, the agent binding and the conversation session.  *)
(*                                                                         *)
(* Spec is the single-owner view: each Gradio callback runs to completion  *)
(* before the next one starts. SpecConc is the threaded view: Gradio runs  *)
(* each event listener's callback in a worker thread, one invocation per   *)
(* listener at a time, and the callbacks share the one event loop of line  *)
(* 39 through run_until_complete.                                          *)
(*                                                                         *)
(* The capability server (MCPServer_HomeAutomation.py) is modelled beside  *)
(* it: the device table, the event log and the four mutating tools.        *)
(* SpecServer is every sequence of tool calls; SpecLog is longer sequences *)
(* of fewer tools, enough to fill the event log.                           *)
(***************************************************************************)
EXTENDS Integers, Sequences, FiniteSets, TLC

\* ------------------------------------------------------------------ bounds
\* Number of callback invocations explored.
MaxOps == 4
\* Number of callback invocations explored in the threaded view.
MaxConcOps == 3
\* Tool calls made on the capability server.
MaxCalls == 3
\* Tool calls made when the event log is filled past its capacity.
MaxLogCalls == 12

\* ------------------------------------------------------- values and helpers
\* Python's None, and a present value, as sequences of length 0 and 1.
None == <<>>
Some(x) == <<x>>
Val(o) == o[1]

\* The two instruction texts of create_agent.
ToolsText == "tools_present"
NoToolsText == "tools_absent"

\* The status strings the lifecycle functions return.
InitOkStatus == "ok_initialised"
InitErrStatus == "err_initialising"
NotFoundStatus == "err_file_not_found"
FailedToStartStatus == "err_failed_to_start"
StartErrStatus == "err_starting"
StartedStatus == "ok_started"
StopErrStatus == "err_stopping"
StoppedStatus == "ok_stopped"
ResetStatus == "ok_reset"
NoStatus == "none"

\* The fixed reply of a turn made while no agent is configured.
NotInitialisedText == "llm_not_initialised"
\* The final output of an agent run (its content is the model's, not the client's).
ReplyText == "reply"

\* What the user can type.
Texts == {"a", "b"}

\* The outcomes of one start_mcp_server call that the environment decides.
StartModes == {"missing", "popen_raises", "exited", "handshake_raises", "ok"}
\* The outcomes of closing the protocol session: it returns, or it raises with
\* the session torn down or still open.
CloseModes == {"ok", "raises_closed", "raises_open"}

UserMsg(text) == [role |-> "user", content |-> text]
AssistantMsg(text) == [role |-> "assistant", content |-> text]

VARIABLES
    agent,              \* None or Some([instructions, mcp_servers])
    mcp_server,         \* None or Some(session id)
    server_process,     \* None or Some(process id)
    current_thread_id,  \* None or Some(trace id)
    previous_result,    \* None or Some(run result)
    aoai_client,        \* None or Some("client")
    proc,               \* every child process spawned: [kind, alive]
    sess,               \* every MCPServerStdio object made: [state, child]
    traceCount,         \* number of trace ids generated by gen_trace_id
    envOk,              \* the Azure OpenAI environment variables are usable
    chatbot,            \* the chat history held by the Chatbot component
    ops,                \* the process/session operations of the last call
    agentRuns,          \* number of Runner.run calls made
    lastInput,          \* None or Some(input of the last Runner.run call)
    last,               \* the last callback: [op, mode, ret, raised]
    prev,               \* the callback before it
    nOps,               \* number of callbacks invoked
    turnsSinceReset,    \* process_user_input calls since the last reset; -1 before any
    thread,             \* per listener: where its worker thread is in run_until_complete
    task,               \* per listener: the coroutine it put on the event loop
    loopThread,         \* None or Some(the listener whose thread runs the loop)
    stopping,           \* the loop has been told to stop
    DEVICES,            \* the server's device table
    EVENT_LOG,          \* the server's event log
    now,                \* the server's clock: the timestamp of the next event
    inserted,           \* every event log_event has appended, in order
    lastTool,           \* the last tool call: [tool, arg, brightness, ret]
    nCalls              \* number of tool calls made

\* The client's variables and the server's.
clientVars == <<agent, mcp_server, server_process, current_thread_id,
                previous_result, aoai_client, proc, sess, traceCount, envOk,
                chatbot, ops, agentRuns, lastInput, last, prev, nOps,
                turnsSinceReset, thread, task, loopThread, stopping>>
serverVars == <<DEVICES, EVENT_LOG, now, inserted, lastTool, nCalls>>

vars == <<clientVars, serverVars>>

\* The threaded view's variables.
concVars == <<thread, task, loopThread, stopping>>

\* The listeners of lines 270-282 whose callbacks go through the event loop,
\* and the coroutine each runs.
Listeners == {"load", "start_btn", "stop_btn", "submit_btn", "msg_submit"}
Handler(l) ==
    CASE l = "load" -> "init"
      [] l = "start_btn" -> "start"
      [] l = "stop_btn" -> "stop"
      [] OTHER -> "turn"

\* The program state the callbacks read and write, as one record.
Globals ==
    [agent |-> agent, mcp_server |-> mcp_server, server_process |-> server_process,
     current_thread_id |-> current_thread_id, previous_result |-> previous_result,
     aoai_client |-> aoai_client, proc |-> proc, sess |-> sess,
     traceCount |-> traceCount, ops |-> <<>>, agentRuns |-> agentRuns,
     lastInput |-> lastInput]

SetGlobals(g) ==
    /\ agent' = g.agent
    /\ mcp_server' = g.mcp_server
    /\ server_process' = g.server_process
    /\ current_thread_id' = g.current_thread_id
    /\ previous_result' = g.previous_result
    /\ aoai_client' = g.aoai_client
    /\ proc' = g.proc
    /\ sess' = g.sess
    /\ traceCount' = g.traceCount
    /\ ops' = g.ops
    /\ agentRuns' = g.agentRuns
    /\ lastInput' = g.lastInput

NoCall == [op |-> "none", mode |-> "-", ret |-> NoStatus, raised |-> FALSE]
Call(op, mode, r) == [op |-> op, mode |-> mode, ret |-> r.ret, raised |-> r.raised]

\* What a coroutine keeps in its own frame across an await.
NoLocals == [s |-> 0, raw |-> FALSE, items |-> <<>>]

\* How a piece of a coroutine ends: it returns, it raises, or it suspends at
\* an await (pc names the await, loc the frame).
Returned(g, ret) == [g |-> g, ret |-> ret, raised |-> FALSE, pc |-> "done", loc |-> NoLocals]
Raised(g) == [g |-> g, ret |-> NoStatus, raised |-> TRUE, pc |-> "done", loc |-> NoLocals]
Awaits(g, pc, loc) == [g |-> g, ret |-> NoStatus, raised |-> FALSE, pc |-> pc, loc |-> loc]
\* except Exception: return the status.
Caught(r, status) == IF r.raised THEN Returned(r.g, status) ELSE r
Did(g, op) == [g EXCEPT !.ops = Append(@, op)]

\* ------------------------------------------------------------- create_agent
\* The client is built on first use; building it raises when the environment
\* variables of lines 23-25 are unusable. The agent is then replaced.
create_agent(g, mcp_servers) ==
    IF g.aoai_client = None /\ ~envOk
    THEN Raised(g)
    ELSE Returned([g EXCEPT
                     !.aoai_client = Some("client"),
                     !.agent = Some([instructions |->
                                        IF mcp_servers # <<>> THEN ToolsText
                                                              ELSE NoToolsText,
                                     mcp_servers |-> mcp_servers])],
                  NoStatus)

initialise_llm(g) ==
    LET r == create_agent(g, <<>>)
    IN  IF r.raised THEN Returned(r.g, InitErrStatus)
                    ELSE Returned(r.g, InitOkStatus)

\* --------------------------------------------------------- start_mcp_server
\* Lines 90-104: the file check and the spawn, up to the sleep.
StartSpawn(g, mode) ==
    IF mode = "missing" THEN Returned(g, NotFoundStatus)
    ELSE IF mode = "popen_raises" THEN Raised(g)
    ELSE Awaits(Did([g EXCEPT !.proc = Append(@, [kind |-> "popen",
                                                   alive |-> mode # "exited"]),
                              !.server_process = Some(Len(g.proc) + 1)], "spawn"),
                "sleep", NoLocals)

\* StartProbe going on to the handshake whatever poll() returns.
StartProbe_IgnoresExit(g) ==
    IF g.server_process = None THEN Raised(g)
    ELSE
    LET g1 == Did(g, "probe")
        s  == Len(g.sess) + 1
    IN  Awaits(Did([g1 EXCEPT !.sess = Append(@, [state |-> "created",
                                                   child |-> None]),
                              !.mcp_server = Some(s)], "handshake"),
               "enter", [NoLocals EXCEPT !.s = s])

\* Lines 106-121: the liveness probe of the process server_process names now,
\* then the MCPServerStdio object, up to the await of its __aenter__.
StartProbe(g) ==
    IF g.server_process = None THEN Raised(g)
    ELSE
    LET g1 == Did(g, "probe")
        s  == Len(g.sess) + 1
    IN  IF ~g1.proc[Val(g1.server_process)].alive
        THEN Returned(g1, FailedToStartStatus)
        ELSE Awaits(Did([g1 EXCEPT !.sess = Append(@, [state |-> "created",
                                                        child |-> None]),
                                   !.mcp_server = Some(s)], "handshake"),
                    "enter", [NoLocals EXCEPT !.s = s])

\* The list [mcp_server] of line 124: mcp_server as it is now.
ServerList(g) == IF g.mcp_server = None THEN <<0>> ELSE g.mcp_server

\* Lines 121-126: __aenter__ of session s ends (it spawns the session's own
\* child process, or raises after cleaning up), then the agent is rebuilt.
StartBind(g, mode, s) ==
    IF mode = "handshake_raises"
    THEN Raised([g EXCEPT !.sess[s].state = "closed"])
    ELSE
    LET g1 == [g EXCEPT !.proc = Append(@, [kind |-> "stdio", alive |-> TRUE]),
                        !.sess[s] = [state |-> "open",
                                     child |-> Some(Len(g.proc) + 1)]]
        r  == create_agent(g1, ServerList(g1))
    IN  IF r.raised THEN Raised(r.g)
        ELSE Returned(Did(r.g, "rebind"), StartedStatus)

\* The body of the try block.
StartBody(g, mode) ==
    LET a == StartSpawn(g, mode)
    IN  IF a.pc = "done" THEN a
        ELSE LET b == StartProbe(a.g)
             IN  IF b.pc = "done" THEN b
                 ELSE StartBind(b.g, mode, b.loc.s)

\* start_mcp_server without its except clause.
start_mcp_server_NoExcept(g, mode) == StartBody(g, mode)

start_mcp_server(g, mode) == Caught(StartBody(g, mode), StartErrStatus)

\* ---------------------------------------------------------- stop_mcp_server
\* Closing a session ends the child it spawned.
CloseSession(g, s) ==
    LET c == g.sess[s].child
    IN  [g EXCEPT !.sess[s].state = "closed",
                  !.proc = IF c = None THEN @ ELSE [@ EXCEPT ![Val(c)].alive = FALSE]]

\* Lines 137-138: with a session, up to the await of its __aexit__.
StopBegin(g) ==
    Awaits(Did(g, "close_session"), "exit", [NoLocals EXCEPT !.s = Val(g.mcp_server)])

\* Lines 138-139: __aexit__ of session s ends and the reference is dropped; an
\* __aexit__ that raises leaves the reference in place.
StopExit(g, closeMode, s) ==
    IF closeMode = "ok"
    THEN Returned([CloseSession(g, s) EXCEPT !.mcp_server = None], NoStatus)
    ELSE Raised(IF closeMode = "raises_closed" THEN CloseSession(g, s) ELSE g)

\* TerminateProcess killing at once, before the signal and the wait.
TerminateProcess_KillFirst(g, waitTimesOut) ==
    LET g1 == Did(Did(Did(g, "kill"), "sigterm"), "wait")
    IN  [g1 EXCEPT !.proc[Val(g.server_process)].alive = FALSE]

\* Lines 143-151: the termination signal, the bounded wait and, when the wait
\* times out (TimeoutExpired is caught), the kill. The process is dead
\* afterwards.
TerminateProcess(g, waitTimesOut) ==
    LET g1 == Did(Did(g, "sigterm"), "wait")
        g2 == IF waitTimesOut THEN Did(Did(g1, "timeout"), "kill") ELSE g1
    IN  [g2 EXCEPT !.proc[Val(g.server_process)].alive = FALSE]

\* StopTail forgetting the conversation as well.
StopTail_ForgetsConversation(g) ==
    LET r == create_agent([g EXCEPT !.server_process = None,
                                    !.previous_result = None], <<>>)
    IN  IF r.raised THEN Raised(r.g)
        ELSE Returned(Did(r.g, "rebind"), StoppedStatus)

\* Lines 153-158: the handle is cleared and the agent rebuilt without tools.
StopTail(g) ==
    LET r == create_agent([g EXCEPT !.server_process = None], <<>>)
    IN  IF r.raised THEN Raised(r.g)
        ELSE Returned(Did(r.g, "rebind"), StoppedStatus)

\* StopRest with `server_process.poll() is None` not guarded by
\* `server_process and`: polling None raises.
StopRest_NoNoneCheck(g, waitTimesOut) ==
    IF g.server_process = None THEN Raised(g)
    ELSE IF g.proc[Val(g.server_process)].alive
    THEN StopTail(TerminateProcess(g, waitTimesOut))
    ELSE StopTail(g)

\* Lines 141-158: what follows the session's close.
StopRest(g, waitTimesOut) ==
    IF g.server_process # None /\ g.proc[Val(g.server_process)].alive
    THEN StopTail(TerminateProcess(g, waitTimesOut))
    ELSE StopTail(g)

\* The body of the try block.
StopBody(g, closeMode, waitTimesOut) ==
    IF g.mcp_server = None THEN StopRest(g, waitTimesOut)
    ELSE LET e == StopExit(StopBegin(g).g, closeMode, StopBegin(g).loc.s)
         IN  IF e.raised THEN e ELSE StopRest(e.g, waitTimesOut)

stop_mcp_server(g, closeMode, waitTimesOut) ==
    Caught(StopBody(g, closeMode, waitTimesOut), StopErrStatus)

\* ------------------------------------------------------- process_user_input
\* RunResult.to_input_list(): the input of the run followed by what it produced.
to_input_list(result) == result.input \o result.new_items

\* The result of Runner.run on an input: the input and the reply.
RunResult(items) ==
    [input |-> items, new_items |-> <<AssistantMsg(ReplyText)>>,
     final_output |-> ReplyText]

\* Lines 174-175: a new conversation gets a new trace id.
NewThreadIfEmpty(g) ==
    IF g.previous_result = None
    THEN [g EXCEPT !.traceCount = @ + 1, !.current_thread_id = Some(g.traceCount + 1)]
    ELSE g

\* The agent's input made of the new text alone, whatever came before.
TurnInput_ForgetsPrior(g, user_input) ==
    [NoLocals EXCEPT !.raw = TRUE, !.items = <<UserMsg(user_input)>>]

\* Lines 179-185: the agent's input, a list when a previous result exists and
\* the raw text otherwise.
TurnInput(g, user_input) ==
    IF g.previous_result # None
    THEN [NoLocals EXCEPT
            !.items = to_input_list(Val(g.previous_result)) \o <<UserMsg(user_input)>>]
    ELSE [NoLocals EXCEPT !.raw = TRUE, !.items = <<UserMsg(user_input)>>]

\* Lines 168-171: the reply of a turn made while no agent is configured.
ShortCircuit(g, user_input, history) ==
    [g |-> g, ret |-> "short_circuit", raised |-> FALSE, pc |-> "done",
     loc |-> NoLocals,
     history |-> history \o <<UserMsg(user_input), AssistantMsg(NotInitialisedText)>>]

\* Lines 173-185: a turn with an agent configured, up to the await of
\* Runner.run, whose call is counted and whose arguments are kept.
TurnBegin(g, user_input) ==
    LET g1 == NewThreadIfEmpty(g)
        in == TurnInput(g1, user_input)
    IN  Awaits([g1 EXCEPT !.agentRuns = @ + 1,
                          !.lastInput = Some([starting_agent |-> Val(g.agent),
                                              raw |-> in.raw, items |-> in.items])],
               "run", in)

\* Lines 182-192: Runner.run ends; its result replaces previous_result and the
\* two messages are appended to the history. A run that raises does neither.
TurnFinish(g, in, user_input, history, runOk) ==
    IF ~runOk
    THEN [g |-> g, ret |-> NoStatus, raised |-> TRUE, pc |-> "done",
          loc |-> NoLocals, history |-> history]
    ELSE [g |-> [g EXCEPT !.previous_result = Some(RunResult(in.items))],
          ret |-> "answered", raised |-> FALSE, pc |-> "done", loc |-> NoLocals,
          history |-> history \o <<UserMsg(user_input),
                                   AssistantMsg(RunResult(in.items).final_output)>>]

AgentTurn(g, user_input, history, runOk) ==
    LET b == TurnBegin(g, user_input)
    IN  TurnFinish(b.g, b.loc, user_input, history, runOk)

\* process_user_input generating the trace id before the agent check.
process_user_input_IdFirst(g, user_input, history, runOk) ==
    IF g.agent = None
    THEN ShortCircuit(NewThreadIfEmpty(g), user_input, history)
    ELSE AgentTurn(g, user_input, history, runOk)

process_user_input(g, user_input, history, runOk) ==
    IF g.agent = None
    THEN ShortCircuit(g, user_input, history)
    ELSE AgentTurn(g, user_input, history, runOk)

\* --------------------------------------------------------- reset_conversation
\* reset_conversation renewing the trace id only.
reset_conversation_KeepsResult(g) ==
    [g |-> [g EXCEPT !.traceCount = @ + 1,
                     !.current_thread_id = Some(g.traceCount + 1)],
     ret |-> ResetStatus, raised |-> FALSE, history |-> <<>>]

reset_conversation(g) ==
    [g |-> [g EXCEPT !.previous_result = None,
                     !.traceCount = @ + 1,
                     !.current_thread_id = Some(g.traceCount + 1)],
     ret |-> ResetStatus, raised |-> FALSE, history |-> <<>>]

\* ------------------------------------------------------------------ actions
\* The capability server's state as its module creates it.
\* Lines 10-28 of the server: the device table as the module creates it.
\* Temperatures are in tenths of a degree.
InitialDevices ==
    [living_room_light |-> [name |-> "Living Room Light", type |-> "light",
                            state |-> "off", brightness |-> 50],
     thermostat |-> [name |-> "Home Thermostat", type |-> "thermostat",
                     temperature |-> 220, target_temperature |-> 220],
     front_door |-> [name |-> "Front Door Lock", type |-> "lock",
                     state |-> "locked"]]

\* No tool has been called yet.
NoToolCall ==
    [tool |-> "none", arg |-> "-", target |-> None, brightness |-> None,
     ret |-> "none", recent |-> <<>>]

\* No coroutine of this listener is on the loop.
NoTask ==
    [pc |-> "none", cb |-> FALSE, text |-> "-", hist |-> <<>>, loc |-> NoLocals,
     reset |-> FALSE]

Init ==
    /\ agent = None
    /\ mcp_server = None
    /\ server_process = None
    /\ current_thread_id = None
    /\ previous_result = None
    /\ aoai_client = None
    /\ proc = <<>>
    /\ sess = <<>>
    /\ traceCount = 0
    /\ envOk \in BOOLEAN
    /\ chatbot = <<>>
    /\ ops = <<>>
    /\ agentRuns = 0
    /\ lastInput = None
    /\ last = NoCall
    /\ prev = NoCall
    /\ nOps = 0
    /\ turnsSinceReset = -1
    /\ thread = [l \in Listeners |-> "idle"]
    /\ task = [l \in Listeners |-> NoTask]
    /\ loopThread = None
    /\ stopping = FALSE
    /\ DEVICES = InitialDevices
    /\ EVENT_LOG = <<>>
    /\ now = 1
    /\ inserted = <<>>
    /\ lastTool = NoToolCall
    /\ nCalls = 0

\* One callback has run to completion: r is what it did and returned.
Completed(op, mode, r) ==
    /\ SetGlobals(r.g)
    /\ last' = Call(op, mode, r)
    /\ prev' = last
    /\ nOps' = nOps + 1
    /\ UNCHANGED <<envOk, concVars, serverVars>>

\* app.load: gradio_initialise_llm.
Initialise ==
    /\ nOps < MaxOps
    /\ Completed("init", "-", initialise_llm(Globals))
    /\ UNCHANGED <<chatbot, turnsSinceReset>>

\* start_btn.click: gradio_start_server.
Start ==
    /\ nOps < MaxOps
    /\ \E mode \in StartModes :
          Completed("start", mode, start_mcp_server(Globals, mode))
    /\ UNCHANGED <<chatbot, turnsSinceReset>>

\* stop_btn.click: gradio_stop_server.
Stop ==
    /\ nOps < MaxOps
    /\ \E closeMode \in CloseModes, waitTimesOut \in BOOLEAN :
          Completed("stop", "-", stop_mcp_server(Globals, closeMode, waitTimesOut))
    /\ UNCHANGED <<chatbot, turnsSinceReset>>

\* submit_btn.click and msg.submit: gradio_chat.
Turn ==
    /\ nOps < MaxOps
    /\ \E user_input \in Texts, runOk \in BOOLEAN :
          LET r == process_user_input(Globals, user_input, chatbot, runOk)
          IN  /\ Completed("turn", user_input, r)
              /\ chatbot' = r.history
    /\ turnsSinceReset' = IF turnsSinceReset < 0 THEN turnsSinceReset
                                                 ELSE turnsSinceReset + 1

\* reset_btn.click: reset_conversation.
Reset ==
    /\ nOps < MaxOps
    /\ LET r == reset_conversation(Globals)
       IN  /\ Completed("reset", "-", r)
           /\ chatbot' = r.history
    /\ turnsSinceReset' = 0

\* A child process ends on its own.
ProcessExit ==
    \E p \in 1..Len(proc) :
        /\ proc[p].alive
        /\ proc' = [proc EXCEPT ![p].alive = FALSE]
        /\ UNCHANGED <<agent, mcp_server, server_process, current_thread_id,
                       previous_result, aoai_client, sess, traceCount, envOk,
                       chatbot, ops, agentRuns, lastInput, last, prev, nOps,
                       turnsSinceReset, concVars, serverVars>>

Next ==
    \/ Initialise
    \/ Start
    \/ Stop
    \/ Turn
    \/ Reset
    \/ ProcessExit

Spec == Init /\ [][Next]_vars

\* ------------------------------------------------------------ threaded view
\* Each callback of lines 202-223 hands its coroutine to
\* event_loop.run_until_complete from the worker thread Gradio runs it in.
\* run_until_complete checks that the loop is not running, makes the coroutine
\* a task of the loop with a done callback that stops the loop, and calls
\* run_forever, which checks again and only then records the running thread.
\* Nothing in the client makes the check and the recording one step. A task
\* put on the loop stays there, and is run by whichever thread runs the loop.

GlobalsKeep == [Globals EXCEPT !.ops = ops]

\* The next piece of listener l's coroutine, from where it is suspended to its
\* next await or its end, on the globals as they are now.
Piece(l, mode, closeMode, waitTimesOut, runOk) ==
    LET t == task[l]
        k == Handler(l)
    IN  CASE k = "init" -> initialise_llm(Globals)
          [] k = "start" /\ t.pc = "new" ->
                Caught(StartSpawn(Globals, mode), StartErrStatus)
          [] k = "start" /\ t.pc = "sleep" ->
                Caught(StartProbe(GlobalsKeep), StartErrStatus)
          [] k = "start" /\ t.pc = "enter" ->
                Caught(StartBind(GlobalsKeep, mode, t.loc.s), StartErrStatus)
          [] k = "stop" /\ t.pc = "new" ->
                IF mcp_server = None
                THEN Caught(StopRest(Globals, waitTimesOut), StopErrStatus)
                ELSE StopBegin(Globals)
          [] k = "stop" /\ t.pc = "exit" ->
                LET e == StopExit(GlobalsKeep, closeMode, t.loc.s)
                IN  Caught(IF e.raised THEN e ELSE StopRest(e.g, waitTimesOut),
                           StopErrStatus)
          [] k = "turn" /\ t.pc = "new" ->
                IF agent = None THEN ShortCircuit(Globals, t.text, t.hist)
                                ELSE TurnBegin(Globals, t.text)
          [] k = "turn" /\ t.pc = "run" ->
                TurnFinish(GlobalsKeep, t.loc, t.text, t.hist, runOk)

\* What the environment decides in the next piece of listener l's coroutine.
PieceInputs(l) ==
    LET t  == task[l]
        k  == Handler(l)
        d  == [mode |-> "ok", closeMode |-> "ok", waitTimesOut |-> FALSE, runOk |-> TRUE]
    IN  CASE k = "start" /\ t.pc = "new" ->
                {[d EXCEPT !.mode = m] : m \in StartModes \ {"handshake_raises"}}
          [] k = "start" /\ t.pc = "enter" ->
                {[d EXCEPT !.mode = m] : m \in {"handshake_raises", "ok"}}
          [] k = "stop" /\ t.pc = "new" ->
                {[d EXCEPT !.waitTimesOut = w] : w \in BOOLEAN}
          [] k = "stop" /\ t.pc = "exit" ->
                {[d EXCEPT !.closeMode = c, !.waitTimesOut = w] :
                    c \in CloseModes, w \in BOOLEAN}
          [] k = "turn" /\ t.pc = "run" ->
                {[d EXCEPT !.runOk = b] : b \in BOOLEAN}
          [] OTHER -> {d}

\* The owner of a task stops waiting for it: its done callback is removed, and
\* a result already there is dropped.
Abandon(t) == IF t.pc \in {"finished", "failed"} THEN NoTask ELSE [t EXCEPT !.cb = FALSE]

\* A callback is invoked: run_until_complete checks the loop and, when it is
\* not running, puts the coroutine on it; a running loop raises RuntimeError.
Submit(l) ==
    /\ nOps < MaxConcOps
    /\ thread[l] = "idle"
    /\ task[l].pc = "none"
    /\ nOps' = nOps + 1
    /\ IF loopThread # None
       THEN UNCHANGED <<thread, task>>
       ELSE /\ thread' = [thread EXCEPT ![l] = "scheduled"]
            /\ \E text \in Texts :
                  task' = [task EXCEPT ![l] =
                              [pc |-> "new", cb |-> TRUE,
                               text |-> IF Handler(l) = "turn" THEN text ELSE "-",
                               hist |-> IF Handler(l) = "turn" THEN chatbot ELSE <<>>,
                               loc |-> NoLocals, reset |-> FALSE]]
    /\ UNCHANGED <<agent, mcp_server, server_process, current_thread_id,
                   previous_result, aoai_client, proc, sess, traceCount, envOk,
                   chatbot, ops, agentRuns, lastInput, last, prev,
                   turnsSinceReset, loopThread, stopping, serverVars>>

\* run_forever: the second check, then the thread runs the loop; a loop that
\* another thread runs by now raises RuntimeError, and the task stays on it.
RunForever(l) ==
    /\ thread[l] = "scheduled"
    /\ IF loopThread # None
       THEN /\ thread' = [thread EXCEPT ![l] = "idle"]
            /\ task' = [task EXCEPT ![l] = Abandon(@)]
            /\ UNCHANGED loopThread
       ELSE /\ thread' = [thread EXCEPT ![l] = "running"]
            /\ loopThread' = Some(l)
            /\ UNCHANGED task
    /\ UNCHANGED <<agent, mcp_server, server_process, current_thread_id,
                   previous_result, aoai_client, proc, sess, traceCount, envOk,
                   chatbot, ops, agentRuns, lastInput, last, prev, nOps,
                   turnsSinceReset, stopping, serverVars>>

\* The running loop runs one task up to its next await or its end. A task that
\* ends with its done callback in place tells the loop to stop.
TaskStep(l) ==
    /\ loopThread # None
    /\ ~stopping
    /\ task[l].pc \notin {"none", "finished", "failed"}
    /\ \E in \in PieceInputs(l) :
          LET r == Piece(l, in.mode, in.closeMode, in.waitTimesOut, in.runOk)
              t == task[l]
          IN  /\ SetGlobals(r.g)
              /\ IF r.pc = "done"
                 THEN /\ task' = [task EXCEPT ![l] =
                            IF ~t.cb THEN NoTask
                            ELSE [t EXCEPT
                                    !.pc = IF r.raised THEN "failed" ELSE "finished",
                                    !.hist = IF Handler(l) = "turn" THEN r.history
                                                                    ELSE @,
                                    !.loc = NoLocals]]
                      /\ stopping' = t.cb
                      /\ last' = Call(Handler(l), t.text, r)
                      /\ prev' = last
                      /\ turnsSinceReset' =
                            IF Handler(l) = "turn" /\ turnsSinceReset >= 0
                            THEN turnsSinceReset + 1 ELSE turnsSinceReset
                 ELSE /\ task' = [task EXCEPT ![l].pc = r.pc, ![l].loc = r.loc]
                      /\ UNCHANGED <<stopping, last, prev, turnsSinceReset>>
    /\ UNCHANGED <<envOk, chatbot, nOps, thread, loopThread, serverVars>>

\* The stopped loop returns to run_until_complete, which returns the task's
\* result to the callback (the new history of a turn goes to the Chatbot) or
\* raises: the task's exception, or RuntimeError when the task has not ended.
LoopExit ==
    /\ loopThread # None
    /\ stopping
    /\ LET l == Val(loopThread)
       IN  /\ thread' = [thread EXCEPT ![l] = "idle"]
           /\ task' = [task EXCEPT ![l] = Abandon(@)]
           /\ chatbot' = IF task[l].pc = "finished" /\ Handler(l) = "turn"
                         THEN task[l].hist ELSE chatbot
    /\ loopThread' = None
    /\ stopping' = FALSE
    /\ UNCHANGED <<agent, mcp_server, server_process, current_thread_id,
                   previous_result, aoai_client, proc, sess, traceCount, envOk,
                   ops, agentRuns, lastInput, last, prev, nOps, turnsSinceReset,
                   serverVars>>

\* reset_btn.click: reset_conversation runs in its worker thread, not on the
\* loop.  A turn waiting for Runner.run at that moment is marked.
ResetNow ==
    /\ nOps < MaxConcOps
    /\ LET r == reset_conversation(Globals)
       IN  /\ SetGlobals(r.g)
           /\ last' = Call("reset", "-", r)
           /\ chatbot' = r.history
    /\ prev' = last
    /\ nOps' = nOps + 1
    /\ turnsSinceReset' = 0
    /\ task' = [l \in Listeners |->
                  IF Handler(l) = "turn" /\ task[l].pc = "run"
                  THEN [task[l] EXCEPT !.reset = TRUE] ELSE task[l]]
    /\ UNCHANGED <<envOk, thread, loopThread, stopping, serverVars>>

ConcNext ==
    \/ \E l \in Listeners : Submit(l)
    \/ \E l \in Listeners : RunForever(l)
    \/ \E l \in Listeners : TaskStep(l)
    \/ LoopExit
    \/ ResetNow

SpecConc == Init /\ [][ConcNext]_vars

\* ------------------------------------------------------- capability server
\* Line 45: the event log keeps the last 10 events.
LogCapacity == 10

\* What the tools return: the two validation errors, and one text per tool.
BrightnessError == "Error: Brightness must be between 0 and 100"
TemperatureError == "Error: Temperature must be between 16C and 30C"
LightText == "Living Room Light is now"
ThermostatText == "Thermostat set to"
DoorText == "Front door is now"
SceneText == "Scene activated"
StatusText == "device status"

\* The arguments the tools are called with.  Temperatures are in tenths of
\* a degree; a brightness is optional.
LightActions == {"on", "off", "toggle"}
Brightnesses == {None, Some(-1), Some(0), Some(70), Some(101)}
Targets == {150, 160, 300, 310}
LockActions == {"lock", "unlock"}
Scenes == {"evening", "morning", "away"}

\* The server's module state as a value.
ServerGlobals ==
    [DEVICES |-> DEVICES, EVENT_LOG |-> EVENT_LOG, now |-> now,
     inserted |-> inserted]

\* A tool's result: the state it leaves and the text it returns.
ToolReturn(s, ret) == [s |-> s, ret |-> ret]

\* The text of a log entry: the words, and the number they carry if any.
ActionText(text, n) == [text |-> text, n |-> n]

\* Lines 33-46.  One event is appended; past 10 entries the oldest goes.
log_event_NoEviction(s, device_id, action) ==
    LET device_name == IF device_id \in DOMAIN s.DEVICES
                       THEN s.DEVICES[device_id].name ELSE device_id
        event == [timestamp |-> s.now, device |-> device_name, action |-> action]
    IN  [s EXCEPT !.EVENT_LOG = Append(s.EVENT_LOG, event),
                  !.inserted = Append(s.inserted, event),
                  !.now = s.now + 1]

log_event(s, device_id, action) ==
    LET device_name == IF device_id \in DOMAIN s.DEVICES
                       THEN s.DEVICES[device_id].name ELSE device_id
        event == [timestamp |-> s.now, device |-> device_name, action |-> action]
        appended == Append(s.EVENT_LOG, event)
    IN  [s EXCEPT !.EVENT_LOG = IF Len(appended) > LogCapacity
                                THEN Tail(appended) ELSE appended,
                  !.inserted = Append(s.inserted, event),
                  !.now = s.now + 1]

\* Lines 76-77: the brightness is valid.
BrightnessValid(brightness) == 0 <= Val(brightness) /\ Val(brightness) <= 100

\* Lines 82-91: the state the light takes from the action, forced off by a
\* brightness of 0.
LightState(s, action, brightness) ==
    LET old == s.DEVICES.living_room_light.state
        st == CASE action = "on" -> "on"
                [] action = "off" -> "off"
                [] action = "toggle" -> IF old = "off" THEN "on" ELSE "off"
    IN  IF brightness = Some(0) THEN "off" ELSE st

\* Lines 93-98: the light's log entry and the tool's return.
LightLogged(s) ==
    LET device == s.DEVICES.living_room_light
    IN  ToolReturn(log_event(s, "living_room_light",
                     IF device.state = "on"
                     THEN ActionText("Light turned on at", <<device.brightness>>)
                     ELSE ActionText("Light turned off", <<>>)),
                   LightText)

control_light_ActionFirst(s, action, brightness) ==
    LET s1 == [s EXCEPT !.DEVICES.living_room_light.state =
                            LightState(s, action, brightness)]
    IN  IF brightness # None /\ ~BrightnessValid(brightness)
        THEN ToolReturn(s1, BrightnessError)
        ELSE LightLogged(IF brightness # None
                         THEN [s1 EXCEPT !.DEVICES.living_room_light.brightness =
                                             Val(brightness)]
                         ELSE s1)

\* Lines 70-98.
control_light(s, action, brightness) ==
    IF brightness # None /\ ~BrightnessValid(brightness)
    THEN ToolReturn(s, BrightnessError)
    ELSE LET s1 == IF brightness # None
                   THEN [s EXCEPT !.DEVICES.living_room_light.brightness =
                                      Val(brightness)]
                   ELSE s
         IN  LightLogged([s1 EXCEPT !.DEVICES.living_room_light.state =
                                        LightState(s, action, brightness)])

\* Line 113: round(temperature + temp_diff * 0.2, 1), in tenths of a degree.
\* A fifth of a whole number of tenths is never half way between two tenths.
Approach(temperature, target_temperature) ==
    temperature + ((2 * (target_temperature - temperature) + 5) \div 10)

\* Lines 100-116.
set_temperature(s, target_temperature) ==
    IF ~(160 <= target_temperature /\ target_temperature <= 300)
    THEN ToolReturn(s, TemperatureError)
    ELSE LET s1 == [s EXCEPT
                      !.DEVICES.thermostat.target_temperature = target_temperature,
                      !.DEVICES.thermostat.temperature =
                          Approach(s.DEVICES.thermostat.temperature,
                                   target_temperature)]
         IN  ToolReturn(log_event(s1, "thermostat",
                            ActionText("Temperature set to", <<target_temperature>>)),
                        ThermostatText)

\* Lines 118-130.
control_door_lock(s, action) ==
    LET s1 == [s EXCEPT !.DEVICES.front_door.state =
                            IF action = "lock" THEN "locked" ELSE "unlocked"]
    IN  ToolReturn(log_event(s1, "front_door",
                       ActionText(IF action = "lock" THEN "Door locked"
                                  ELSE "Door unlocked", <<>>)),
                   DoorText)

\* Lines 137-157: the values each scene presets.  The away scene leaves the
\* brightness as it was.
ScenePreset(D, scene) ==
    CASE scene = "evening" ->
           [D EXCEPT !.living_room_light.state = "on",
                     !.living_room_light.brightness = 70,
                     !.thermostat.target_temperature = 190,
                     !.front_door.state = "locked"]
      [] scene = "morning" ->
           [D EXCEPT !.living_room_light.state = "on",
                     !.living_room_light.brightness = 90,
                     !.thermostat.target_temperature = 230,
                     !.front_door.state = "unlocked"]
      [] scene = "away" ->
           [D EXCEPT !.living_room_light.state = "off",
                     !.thermostat.target_temperature = 150,
                     !.front_door.state = "locked"]

\* The log entry of a scene.
SceneActionText(scene) ==
    ActionText(CASE scene = "evening" -> "Scene 'evening' activated"
                 [] scene = "morning" -> "Scene 'morning' activated"
                 [] scene = "away" -> "Scene 'away' activated", <<>>)

activate_scene_PerDeviceLog(s, scene) ==
    LET s1 == [s EXCEPT !.DEVICES = ScenePreset(s.DEVICES, scene)]
        s2 == log_event(s1, "front_door",
                        ActionText(IF s1.DEVICES.front_door.state = "locked"
                                   THEN "Door locked" ELSE "Door unlocked", <<>>))
    IN  ToolReturn(log_event(s2, "scene_control", SceneActionText(scene)),
                   SceneText)

\* Lines 132-162.
activate_scene(s, scene) ==
    LET s1 == [s EXCEPT !.DEVICES = ScenePreset(s.DEVICES, scene)]
    IN  ToolReturn(log_event(s1, "scene_control", SceneActionText(scene)),
                   SceneText)

\* Line 171: EVENT_LOG[-5:].
recent_events(log) ==
    IF Len(log) <= 5 THEN log ELSE SubSeq(log, Len(log) - 4, Len(log))

\* A tool call has returned r.
Called(call, r) ==
    /\ DEVICES' = r.s.DEVICES
    /\ EVENT_LOG' = r.s.EVENT_LOG
    /\ now' = r.s.now
    /\ inserted' = r.s.inserted
    /\ lastTool' = [call EXCEPT !.ret = r.ret]
    /\ nCalls' = nCalls + 1
    /\ UNCHANGED clientVars

ControlLight ==
    \E action \in LightActions, brightness \in Brightnesses :
        Called([NoToolCall EXCEPT !.tool = "control_light", !.arg = action,
                                  !.brightness = brightness],
               control_light(ServerGlobals, action, brightness))

SetTemperature ==
    \E target_temperature \in Targets :
        Called([NoToolCall EXCEPT !.tool = "set_temperature",
                                  !.target = Some(target_temperature)],
               set_temperature(ServerGlobals, target_temperature))

ControlDoorLock ==
    \E action \in LockActions :
        Called([NoToolCall EXCEPT !.tool = "control_door_lock", !.arg = action],
               control_door_lock(ServerGlobals, action))

ActivateScene ==
    \E scene \in Scenes :
        Called([NoToolCall EXCEPT !.tool = "activate_scene", !.arg = scene],
               activate_scene(ServerGlobals, scene))

\* Lines 165-173: reading the status resource changes nothing.
GetDeviceStatus ==
    Called([NoToolCall EXCEPT !.tool = "get_device_status",
                              !.recent = recent_events(EVENT_LOG)],
           ToolReturn(ServerGlobals, StatusText))

ServerNext ==
    /\ nCalls < MaxCalls
    /\ \/ ControlLight
       \/ SetTemperature
       \/ ControlDoorLock
       \/ ActivateScene
       \/ GetDeviceStatus

SpecServer == Init /\ [][ServerNext]_vars

\* The door is worked, and the status read, until the log has overflowed.
LogNext ==
    /\ nCalls < MaxLogCalls
    /\ \/ ControlDoorLock
       \/ GetDeviceStatus

SpecLog == Init /\ [][LogNext]_vars

\* ------------------------------------------------------------------ claims
LiveProcs == {p \in 1..Len(proc) : proc[p].alive}
OpenSessions == {s \in 1..Len(sess) : sess[s].state = "open"}

\* The handle is ready: the server process is alive and the session is open.
HandleReady ==
    /\ server_process # None
    /\ proc[Val(server_process)].alive
    /\ mcp_server # None
    /\ sess[Val(mcp_server)].state = "open"

ToolsBound == agent # None /\ Val(agent).mcp_servers # <<>>
NoToolsAgent == Some([instructions |-> NoToolsText, mcp_servers |-> <<>>])

\* The operations on a process or a session.
ProcessOps == {"spawn", "probe", "handshake", "close_session", "sigterm", "wait", "kill"}
OpsUsed == {ops[i] : i \in 1..Len(ops)}

\* The step is a call of callback op.
CallOf(op) == nOps' = nOps + 1 /\ last'.op = op

\* C1: after every sequence of start and stop calls, at most one child process
\* spawned by the client is alive.
C1_AtMostOneLiveChild == Cardinality(LiveProcs) <= 1

\* C2: after two successful starts in a row exactly one server process and one
\* session are live, and the agent's tool list is that newest session.
C2_SecondStartReplacesFirst ==
    (/\ last.op = "start" /\ last.ret = StartedStatus
     /\ prev.op = "start" /\ prev.ret = StartedStatus)
    => /\ Cardinality(LiveProcs) = 1
       /\ Cardinality(OpenSessions) = 1
       /\ agent = Some([instructions |-> ToolsText, mcp_servers |-> mcp_server])

\* C3: the agent's tool list is non-empty exactly when the handle is ready, and
\* the tool-present instructions are active exactly then. Stated for a usable
\* environment, where building the agent cannot raise.
C3_ToolsIffReady ==
    envOk => /\ ToolsBound <=> HandleReady
             /\ agent # None => (Val(agent).instructions = ToolsText <=> HandleReady)

\* C4: when stop_mcp_server returns, whatever its outcome, both handle globals
\* are None, the process the handle named is not alive and the agent is the
\* no-tools agent. Stated for a usable environment.
C4_StopAlwaysClears ==
    [][(envOk /\ CallOf("stop"))
        => /\ mcp_server' = None
           /\ server_process' = None
           /\ server_process # None => ~proc'[Val(server_process)].alive
           /\ agent' = NoToolsAgent]_vars

\* What a stop with no handle does to the processes, sessions and handle: nothing.
NoServerStopIsInert ==
    /\ OpsUsed' \cap ProcessOps = {}
    /\ UNCHANGED <<mcp_server, server_process, proc, sess>>

\* C5 as claimed: stop_mcp_server with no handle returns the success status and
\* performs no process or session operation; the handle state is unchanged.
C5_NoServerStopSucceeds ==
    [][(CallOf("stop") /\ mcp_server = None /\ server_process = None)
        => /\ last'.ret = StoppedStatus
           /\ NoServerStopIsInert]_vars

\* C5 amended: stop_mcp_server with no handle performs no process or session
\* operation and leaves the handle state unchanged; it returns the success
\* status unless rebuilding the agent raises (no client exists and none can be
\* built), and the error status then.
C5_NoServerStopInert ==
    [][(CallOf("stop") /\ mcp_server = None /\ server_process = None)
        => /\ last'.ret = IF aoai_client = None /\ ~envOk THEN StopErrStatus
                                                         ELSE StoppedStatus
           /\ ~last'.raised
           /\ NoServerStopIsInert]_vars

\* Two stops in a row, the second with nothing to stop.
C5_Witness ==
    /\ prev.op = "stop" /\ prev.ret = StoppedStatus
    /\ last.op = "stop" /\ last.ret = StoppedStatus
    /\ ops = <<"rebind">>

\* C6: start_mcp_server never raises; each failure mode yields its failure
\* status and a start in which nothing fails yields the success status.
\* (In mode "ok" the rebinding is what can still raise: it does exactly when
\* no client could be built, which leaves aoai_client None.)
C6_StartNeverRaises ==
    last.op = "start"
    => /\ ~last.raised
       /\ last.mode = "missing" => last.ret = NotFoundStatus
       /\ last.mode = "popen_raises" => last.ret = StartErrStatus
       /\ last.mode = "exited" => last.ret = FailedToStartStatus
       /\ last.mode = "handshake_raises" => last.ret = StartErrStatus
       /\ last.mode = "ok" => last.ret = IF aoai_client = None THEN StartErrStatus
                                                               ELSE StartedStatus

\* A start whose handshake raised has returned the error status.
C6_Witness ==
    /\ last.op = "start" /\ last.ret = StartErrStatus /\ ~last.raised
    /\ last.mode = "handshake_raises"
    /\ envOk

\* C7: a reset leaves no continuation state, and the first process_user_input
\* after it hands the agent the raw text of the new message only.
C7_ResetEmptiesContinuation ==
    /\ last.op = "reset" => previous_result = None /\ chatbot = <<>>
    /\ (last.op = "turn" /\ turnsSinceReset = 1 /\ last.ret # "short_circuit")
       => /\ lastInput # None
          /\ Val(lastInput).raw
          /\ Val(lastInput).items = <<UserMsg(last.mode)>>

\* A turn answered right after a reset that followed an answered turn.
C7_Witness ==
    /\ last.op = "turn" /\ last.ret = "answered" /\ turnsSinceReset = 1
    /\ prev.op = "reset"
    /\ agentRuns >= 2

\* C8: with no agent configured, process_user_input returns the history plus
\* the user message and the fixed message, calls no agent and leaves
\* previous_result and current_thread_id alone.
C8_NoAgentShortCircuits ==
    [][(CallOf("turn") /\ agent = None)
        => /\ last'.ret = "short_circuit" /\ ~last'.raised
           /\ chatbot' = chatbot \o <<UserMsg(last'.mode),
                                      AssistantMsg(NotInitialisedText)>>
           /\ agentRuns' = agentRuns
           /\ UNCHANGED <<previous_result, current_thread_id, traceCount>>]_vars

\* Two short-circuited turns in a row.
C8_Witness ==
    /\ last.op = "turn" /\ last.ret = "short_circuit"
    /\ agent = None
    /\ Len(chatbot) = 4

\* A coroutine of listener l has started and is suspended at an await.
InFlight(l) == task[l].pc \in {"sleep", "enter", "exit", "run"}

\* C9: no two turns are in flight at once, each having read previous_result
\* and neither having written it yet.
C9_TurnsSerialized ==
    Cardinality({l \in Listeners : Handler(l) = "turn" /\ InFlight(l)}) <= 1

\* C10: a start or stop in flight excludes every other coroutine in flight:
\* another start or stop, and a turn.
C10_LifecycleExclusive ==
    \A l1, l2 \in Listeners :
        (l1 # l2 /\ InFlight(l1) /\ InFlight(l2))
        => (Handler(l1) = "turn" /\ Handler(l2) = "turn")


\* C11: the event log never holds more than its capacity; it is the last
\* entries log_event appended, in the order they were appended, so that once
\* more than the capacity have been appended the first one is gone.
LastOf(seq, n) == IF Len(seq) <= n THEN seq ELSE SubSeq(seq, Len(seq) - n + 1, Len(seq))

C11_LogBoundedFifo ==
    /\ Len(EVENT_LOG) <= LogCapacity
    /\ EVENT_LOG = LastOf(inserted, LogCapacity)
    /\ Len(inserted) > LogCapacity =>
           \A i \in 1..Len(EVENT_LOG) : EVENT_LOG[i] # inserted[1]

\* The log has been filled and one more entry appended.
C11_Witness ==
    /\ Len(inserted) = LogCapacity + 1
    /\ Len(EVENT_LOG) = LogCapacity
    /\ EVENT_LOG[1] = inserted[2]

\* What a tool call's arguments make of it: validation rejects a brightness
\* outside 0..100 and a target temperature outside 16..30 degrees.
BadBrightness(call) ==
    /\ call.tool = "control_light"
    /\ call.brightness # None
    /\ ~(0 <= Val(call.brightness) /\ Val(call.brightness) <= 100)
BadTarget(call) ==
    /\ call.tool = "set_temperature"
    /\ ~(160 <= Val(call.target) /\ Val(call.target) <= 300)
ErrorShaped(ret) == ret \in {BrightnessError, TemperatureError}

\* A step that is one tool call.
ToolStep == nCalls' = nCalls + 1

\* C12: a call that validation rejects (control_light with a brightness
\* outside 0..100 whatever the action, set_temperature with a target outside
\* 16..30) returns an error, changes no field of any device and appends
\* nothing to the event log.
C12_RejectedCallChangesNothing ==
    [][ToolStep =>
          /\ BadBrightness(lastTool') => lastTool'.ret = BrightnessError
          /\ BadTarget(lastTool') => lastTool'.ret = TemperatureError
          /\ (BadBrightness(lastTool') \/ BadTarget(lastTool')
                \/ ErrorShaped(lastTool'.ret))
               => UNCHANGED <<DEVICES, EVENT_LOG, inserted>>]_vars

\* A light that is off has been asked to turn on at a brightness of 101,
\* after an earlier call had changed a device.
C12_Witness ==
    /\ lastTool.tool = "control_light"
    /\ lastTool.arg = "on"
    /\ lastTool.brightness = Some(101)
    /\ lastTool.ret = BrightnessError
    /\ DEVICES.living_room_light.state = "off"
    /\ EVENT_LOG # <<>>

\* The four tools that change devices.
Mutators == {"control_light", "set_temperature", "control_door_lock", "activate_scene"}

\* The step appended exactly the entry e to the event log.
AppendedOnly(e) ==
    /\ inserted' = Append(inserted, e)
    /\ EVENT_LOG' = LastOf(Append(EVENT_LOG, e), LogCapacity)

\* The devices a scene names stand at its preset values.
AtPreset(D, scene) ==
    CASE scene = "evening" ->
           /\ D.living_room_light.state = "on"
           /\ D.living_room_light.brightness = 70
           /\ D.thermostat.target_temperature = 190
           /\ D.front_door.state = "locked"
      [] scene = "morning" ->
           /\ D.living_room_light.state = "on"
           /\ D.living_room_light.brightness = 90
           /\ D.thermostat.target_temperature = 230
           /\ D.front_door.state = "unlocked"
      [] scene = "away" ->
           /\ D.living_room_light.state = "off"
           /\ D.thermostat.target_temperature = 150
           /\ D.front_door.state = "locked"

\* C13: every successful mutation (control_light, set_temperature,
\* control_door_lock, activate_scene) appends exactly one entry to the event
\* log; activate_scene appends exactly one scene-activation entry and no
\* per-device entry, and leaves every device the scene names at its preset.
C13_OneEntryPerMutation ==
    [][(ToolStep /\ lastTool'.tool \in Mutators /\ ~ErrorShaped(lastTool'.ret)) =>
          /\ \E e \in {inserted'[i] : i \in 1..Len(inserted')} : AppendedOnly(e)
          /\ lastTool'.tool = "activate_scene" =>
                /\ AppendedOnly([timestamp |-> now, device |-> "scene_control",
                                 action |-> SceneActionText(lastTool'.arg)])
                /\ AtPreset(DEVICES', lastTool'.arg)]_vars

\* The morning scene has been activated over a locked door and a dark room
\* that earlier calls had left their entries about.
C13_Witness ==
    /\ lastTool.tool = "activate_scene"
    /\ lastTool.arg = "morning"
    /\ Len(EVENT_LOG) = 3
    /\ EVENT_LOG[2].device = "Front Door Lock"
    /\ EVENT_LOG[3].device = "scene_control"
    /\ DEVICES.front_door.state = "unlocked"

\* C19: in every state any sequence of tool calls reaches, the thermostat's
\* target temperature is within 16..30 degrees and the light's brightness
\* within 0..100.
C19_FieldsInDomain ==
    /\ 160 <= DEVICES.thermostat.target_temperature
    /\ DEVICES.thermostat.target_temperature <= 300
    /\ 0 <= DEVICES.living_room_light.brightness
    /\ DEVICES.living_room_light.brightness <= 100

\* A step that is one turn the agent has answered.
AnsweredTurn == CallOf("turn") /\ agent # None /\ last'.ret = "answered"

\* C14: a turn with an agent configured.  With no prior result a new session
\* identifier is generated and the agent receives the raw user text; with a
\* prior result the agent receives that result's input list with the new user
\* message appended last, and the identifier stays.  After the turn the
\* agent's result is the prior result, and the chat history is the previous
\* history followed by the user message and the assistant message.
C14_TurnProtocol ==
    [][AnsweredTurn =>
          LET in == Val(lastInput')
              text == last'.mode
          IN  /\ previous_result = None =>
                    /\ traceCount' = traceCount + 1
                    /\ current_thread_id' = Some(traceCount')
                    /\ in.raw
                    /\ in.items = <<UserMsg(text)>>
              /\ previous_result # None =>
                    /\ ~in.raw
                    /\ in.items = to_input_list(Val(previous_result))
                                      \o <<UserMsg(text)>>
                    /\ UNCHANGED <<current_thread_id, traceCount>>
              /\ agentRuns' = agentRuns + 1
              /\ previous_result' = Some(RunResult(in.items))
              /\ chatbot' = chatbot \o <<UserMsg(text), AssistantMsg(ReplyText)>>]_vars

\* A second turn has been answered: the agent was given the first exchange
\* and the new message, and the history holds both exchanges.
C14_Witness ==
    /\ last.op = "turn"
    /\ last.ret = "answered"
    /\ lastInput # None
    /\ ~Val(lastInput).raw
    /\ Len(Val(lastInput).items) = 3
    /\ Len(chatbot) = 4
    /\ previous_result # None
    /\ Len(to_input_list(Val(previous_result))) = 4

\* The statuses with which start_mcp_server reports a failure.
StartFailures == {NotFoundStatus, FailedToStartStatus, StartErrStatus}

\* C15: after a start_mcp_server call that returns a failure status the
\* tools are absent: the handle is not ready, no child process or session
\* the call created is alive or referenced, and the agent has no tools;
\* also when the handle was ready before the call.  The formula asks the
\* least of this: nothing the call created is still alive or open.
C15_FailedStartLeavesToolsAbsent ==
    [][(CallOf("start") /\ last'.ret \in StartFailures) =>
          /\ ~HandleReady'
          /\ ~ToolsBound'
          /\ \A p \in (Len(proc) + 1)..Len(proc') :
                ~proc'[p].alive
          /\ \A x \in (Len(sess) + 1)..Len(sess') :
                sess'[x].state # "open"]_vars

\* Operation a comes before operation b wherever b is in the log of the call.
Precedes(log, a, b) ==
    \A j \in 1..Len(log) : log[j] = b => \E i \in 1..(j - 1) : log[i] = a

\* C16: in start_mcp_server the liveness probe comes before the handshake.
\* If the spawned process has exited by the end of the grace period the call
\* returns the failed-to-start status and neither opens a session nor rebinds
\* the agent; a session is opened and the agent rebound only after a probe
\* that found the process alive.
C16_ProbeBeforeHandshake ==
    [][CallOf("start") =>
          /\ last'.mode = "exited" =>
                /\ last'.ret = FailedToStartStatus
                /\ ops' = <<"spawn", "probe">>
                /\ UNCHANGED <<agent, sess, mcp_server>>
          /\ Precedes(ops', "spawn", "probe")
          /\ Precedes(ops', "probe", "handshake")
          /\ Precedes(ops', "handshake", "rebind")
          /\ (sess' # sess \/ agent' # agent) =>
                /\ "probe" \in OpsUsed'
                /\ last'.mode # "exited"]_vars

\* A start whose process had exited follows a start that succeeded: the
\* second call has probed and stopped there.
C16_Witness ==
    /\ last.op = "start"
    /\ last.mode = "exited"
    /\ last.ret = FailedToStartStatus
    /\ prev.op = "start"
    /\ prev.ret = StartedStatus
    /\ ops = <<"spawn", "probe">>
    /\ Len(sess) = 1

\* C17: stop_mcp_server with a live server closes the session first, then
\* sends the termination signal, then waits; it kills only after the wait
\* has timed out, never before the signal; and when it returns its success
\* status the process is no longer alive.
C17_StopOrder ==
    [][(CallOf("stop") /\ HandleReady) =>
          /\ ops'[1] = "close_session"
          /\ Precedes(ops', "close_session", "sigterm")
          /\ Precedes(ops', "sigterm", "wait")
          /\ Precedes(ops', "wait", "timeout")
          /\ Precedes(ops', "timeout", "kill")
          /\ Precedes(ops', "sigterm", "kill")
          /\ last'.ret = StoppedStatus =>
                /\ ~proc'[Val(server_process)].alive
                /\ {"close_session", "sigterm", "wait"} \subseteq OpsUsed']_vars

\* A live server has been stopped with the kill: the wait had timed out.
C17_Witness ==
    /\ last.op = "stop"
    /\ last.ret = StoppedStatus
    /\ prev.op = "start"
    /\ prev.ret = StartedStatus
    /\ ops = <<"close_session", "sigterm", "wait", "timeout", "kill", "rebind">>
    /\ LiveProcs = {}

\* C18: start_mcp_server and stop_mcp_server, succeeding or failing, leave
\* previous_result and current_thread_id as they were, so that a turn made
\* after one of them in a conversation under way gives the agent bound now
\* the whole prior input list and the new message.
C18_RebindKeepsConversation ==
    [][/\ (CallOf("start") \/ CallOf("stop")) =>
             UNCHANGED <<previous_result, current_thread_id>>
       /\ (CallOf("turn") /\ last.op \in {"start", "stop"} /\ agent # None
             /\ previous_result # None) =>
             /\ agentRuns' = agentRuns + 1
             /\ Val(lastInput').starting_agent = Val(agent)
             /\ Val(lastInput').items =
                    to_input_list(Val(previous_result)) \o <<UserMsg(last'.mode)>>]_vars

\* A turn, then a start that succeeded, then a turn: the agent with tools
\* was given the first exchange and the new message.
C18_Witness ==
    /\ last.op = "turn"
    /\ last.ret = "answered"
    /\ prev.op = "start"
    /\ prev.ret = StartedStatus
    /\ Val(lastInput).starting_agent.mcp_servers # <<>>
    /\ Len(Val(lastInput).items) = 3
    /\ current_thread_id = Some(1)

\* C20: a reset is not undone by a turn that was waiting for the agent when
\* the reset ran: when that turn ends, previous_result is None.  The formula
\* asks it of a turn that is alone on the loop, run by its own thread.
C20_ResetNotUndone ==
    [][\A l \in Listeners :
          (/\ task[l].pc = "run" /\ task[l].reset /\ task'[l].pc # "run"
           /\ loopThread = Some(l)
           /\ \A o \in Listeners \ {l} : task[o].pc = "none" /\ thread[o] = "idle")
             => previous_result' = None]_vars

====
